---- MODULE Spec2Model ----
(***************************************************************************)
(* Camera selection, stream handling and the capture/preview machine of    *)
(* the meter-reading client (src/src/App.jsx and its sibling variant       *)
(* src/unnamed/part_000), and of the two flip-camera variants of the       *)
(* client (src/unnamed/part_001 and src/unnamed/part_002), whose <video>   *)
(* is always mounted; the image enhancement the client runs on a captured  *)
(* frame (processWithOpenCV) and the extraction endpoint the frame is sent *)
(* to (src/api/ocr.js, src/unnamed/part_006, src/unnamed/part_004); and    *)
(* the capture flow that ties them together, from the button through       *)
(* loadOpenCV, the enhancement and the fetch to the rows of meter_records. *)
(*                                                                         *)
(* A media stream opened with audio:false carries exactly one video track, *)
(* so a stream is live iff that track has not been stopped.                *)
(* The <video> element exists only while previewImage is null (the render  *)
(* shows <img> instead otherwise), so videoRef.current is null while a     *)
(* preview is shown, and a freshly mounted <video> has srcObject null.     *)
(* React commits the state updates of an event handler when the handler    *)
(* returns: a handler reads videoRef as the previous render left it.       *)
(***************************************************************************)
EXTENDS Integers, Sequences, FiniteSets, TLC

VARIABLES
    variant,          \* which source variant runs: "App", "P000", "P001", "P002";
                      \* of the pipeline "App", "P000", "P001b"; of the endpoint
                      \* "ocr", "P006", "P004"
    hostCatalog,      \* what enumerateDevices() answers (host state)
    initPc,           \* position of the init() effect
    tempStream,       \* the permission-probe stream: "none" | "live" | "stopped"
    cameras,          \* useState cameras
    selectedCameraId, \* useState selectedCameraId (0 is null)
    previewImage,     \* useState previewImage # null
    loading,          \* useState loading
    result,           \* useState result: "null" | "record" | "error"
    raw,              \* useState raw: "" | "text"
    streams,          \* every stream getUserMedia handed to startCamera
    srcObject,        \* videoRef.current.srcObject (0 is null)
    pending,          \* startCamera calls awaiting getUserMedia, oldest first
    lastAlert,        \* the text of the last alert()
    lastOp,           \* the handler or continuation that ran last
    currentDeviceId,  \* flip variants: useState currentDeviceId (0 is null)
    backDeviceId,     \* part_001 preferredBackDeviceId, part_002 backDeviceId
    frontDeviceId,    \* part_001 preferredFrontDeviceId, part_002 frontDeviceId
    cameraStarted,    \* part_001 cameraReady, part_002 cameraStarted
    cameraError,      \* flip variants: useState cameraError # null
    trip,             \* history: the flip round trip under way (see flipCamera)
    canvas,           \* processWithOpenCV: the canvas it is given (width, height, pixels)
    frame,            \* history: the canvas as it was when processWithOpenCV was called
    mats,             \* processWithOpenCV: the cv objects allocated and not deleted
    enhPc,            \* position of a processWithOpenCV call
    enhOut,           \* what processWithOpenCV returned, or the error it threw
    request,          \* /api/ocr: the request (method, imageBase64 present)
    rawText,          \* /api/ocr: the text of the upstream answer, trimmed
    parsed,           \* /api/ocr: the handler's parsed
    response,         \* /api/ocr: the response sent (status and JSON body)
    ocrPc,            \* position of the /api/ocr handler
    records,          \* the rows inserted into meter_records
    tally             \* the capture flow so far (see NoTally)

\* The state of the flip variants; the capture machine leaves it alone.
flipVars == <<currentDeviceId, backDeviceId, frontDeviceId, cameraStarted, cameraError, trip>>

\* The state of the capture machine; the flip variants leave it alone.
captureVars == <<selectedCameraId, previewImage, loading, result, raw, lastAlert>>

\* The state of one processWithOpenCV call.
enhanceVars == <<canvas, frame, mats, enhPc, enhOut>>

\* The state of one /api/ocr request.
ocrVars == <<request, rawText, parsed, response, ocrPc>>

\* The database table and the flow's counts.
flowVars == <<records, tally>>

\* All of them: the camera machines leave them alone.
pipelineVars == <<enhanceVars, ocrVars, flowVars>>

vars == <<variant, hostCatalog, initPc, tempStream, cameras, selectedCameraId,
          previewImage, loading, result, raw, streams, srcObject, pending,
          lastAlert, lastOp, flipVars, pipelineVars>>

----------------------------------------------------------------------------
(* Bounds *)

MaxCams == 3        \* devices in a catalog of the selection specification
MaxStreams == 3     \* streams acquired by startCamera in one run
MaxPending == 2     \* startCamera calls in flight at once

----------------------------------------------------------------------------
(* Labels are strings: sequences of characters. *)

LabelEmpty  == <<>>
LabelBack0  == <<"b", "a", "c", "k", "0">>
LabelBack0U == <<"B", "a", "c", "k", "0">>
LabelBack1  == <<"b", "a", "c", "k", "1">>
LabelFront0 == <<"f", "r", "o", "n", "t", "0">>
Label0Back  == <<"0", "b", "a", "c", "k">>

Labels == {LabelEmpty, LabelBack0, LabelBack0U, LabelBack1, LabelFront0, Label0Back}

\* String.prototype.toLowerCase on one character
LowerChar(c) ==
    CASE c = "B" -> "b"
      [] c = "A" -> "a"
      [] c = "C" -> "c"
      [] c = "K" -> "k"
      [] c = "F" -> "f"
      [] c = "R" -> "r"
      [] c = "O" -> "o"
      [] c = "N" -> "n"
      [] c = "T" -> "t"
      [] OTHER -> c

toLowerCase(s) == [i \in 1..Len(s) |-> LowerChar(s[i])]

\* String.prototype.includes
includes(s, p) ==
    \E i \in 0..(Len(s) - Len(p)) : SubSeq(s, i + 1, i + Len(p)) = p

StrBack == <<"b", "a", "c", "k">>
StrZero == <<"0">>

\* A MediaDeviceInfo of kind videoinput; deviceId 0 stands for null.
NoDevice == [deviceId |-> 0, label |-> <<>>]

\* Catalogs: the device at position i has deviceId i.
CatalogsOfLen(n) ==
    { [i \in 1..n |-> [deviceId |-> i, label |-> ls[i]]] : ls \in [1..n -> Labels] }

AllCatalogs == UNION { CatalogsOfLen(n) : n \in 0..MaxCams }

\* Array.prototype.find, given for each element whether the callback passes:
\* the index of the first element that passes, 0 if none does
find(passes) ==
    IF \E i \in 1..Len(passes) : passes[i]
    THEN CHOOSE i \in 1..Len(passes) : passes[i] /\ \A j \in 1..(i - 1) : ~passes[j]
    ELSE 0

IsBackZero(c) == includes(c.label, StrBack) /\ includes(c.label, StrZero)

IsBack(c) == includes(c.label, StrBack)

findBackZero(cams) == find([i \in 1..Len(cams) |-> IsBackZero(cams[i])])

findBack(cams) == find([i \in 1..Len(cams) |-> IsBack(cams[i])])

\* The devices the host can open (the hardware behind hostCatalog).
HostDevices == { hostCatalog[i].deviceId : i \in 1..Len(hostCatalog) }

\* Catalogs the host of the capture machine may answer with.
HostCatalogs ==
    { <<>>,
      <<[deviceId |-> 1, label |-> LabelBack0]>>,
      <<[deviceId |-> 1, label |-> LabelFront0], [deviceId |-> 2, label |-> LabelBack0]>> }

Variants == {"App", "P000"}

----------------------------------------------------------------------------
(* Camera Selector *)

findMainBackCamera_noFallback(cams) ==
    IF Len(cams) = 0 THEN NoDevice
    ELSE IF findBackZero(cams) # 0 THEN cams[findBackZero(cams)]
    ELSE IF findBack(cams) # 0 THEN cams[findBack(cams)]
    ELSE NoDevice

\* App.jsx findMainBackCamera: the labels are matched as the host gave them.
findMainBackCamera(cams) ==
    IF Len(cams) = 0 THEN NoDevice
    ELSE IF findBackZero(cams) # 0 THEN cams[findBackZero(cams)]
    ELSE IF findBack(cams) # 0 THEN cams[findBack(cams)]
    ELSE cams[1]

----------------------------------------------------------------------------
(* Stream Manager *)

\* lastOp: the step that ran last. For a startCamera step, req is the device
\* id asked for and prev the stream stopCurrentStream acted on (0: none).
OpStart(name, dev, req, prev) == [op |-> name, dev |-> dev, req |-> req, prev |-> prev]

Op(name, dev) == OpStart(name, dev, 0, 0)

\* No flip round trip under way. A trip records the device it set out from
\* and how far it has come: 1 first flip issued, 2 completed, 3 second flip
\* issued, 4 completed.
NoTrip == [origin |-> 0, n |-> 0]

\* The stream stopCurrentStream acts on: videoRef.current?.srcObject
HeldStream == IF previewImage THEN 0 ELSE srcObject

LiveStreams(strs) == { i \in 1..Len(strs) : strs[i].live }

stopCurrentStream_noNullGuard(strs, src) ==
    IF previewImage \/ src = 0
    THEN [streams |-> strs, srcObject |-> src, threw |-> TRUE]
    ELSE [streams |-> [strs EXCEPT ![src].live = FALSE],
          srcObject |-> IF variant = "P000" THEN src ELSE 0,
          threw |-> FALSE]

stopCurrentStream_keepsTracks(strs, src) ==
    IF previewImage \/ src = 0
    THEN [streams |-> strs, srcObject |-> src, threw |-> FALSE]
    ELSE [streams |-> strs,
          srcObject |-> IF variant = "P000" THEN src ELSE 0,
          threw |-> FALSE]

\* stopCurrentStream, run on a manager holding streams strs and the viewport
\* reference src. videoRef.current is null while the preview is shown.
\* App.jsx (and stopCurrentStream of part_001, stopStream of part_002) stops
\* the track and clears srcObject; part_000 only stops the track.
stopCurrentStream(strs, src) ==
    IF previewImage \/ src = 0
    THEN [streams |-> strs, srcObject |-> src, threw |-> FALSE]
    ELSE [streams |-> [strs EXCEPT ![src].live = FALSE],
          srcObject |-> IF variant = "P000" THEN src ELSE 0,
          threw |-> FALSE]

\* Room for one more acquisition within the bounds of the model.
CanStart == Len(pending) < MaxPending /\ Len(streams) + Len(pending) < MaxStreams

\* startCamera up to its await: stop, then issue getUserMedia. A request that
\* is in flight when a newer one is issued is marked superseded.
startCamera(deviceId) ==
    LET st == stopCurrentStream(streams, srcObject) IN
    /\ streams' = st.streams
    /\ srcObject' = st.srcObject
    /\ pending' = Append([k \in 1..Len(pending) |-> [pending[k] EXCEPT !.superseded = TRUE]],
                         [dev |-> deviceId, superseded |-> FALSE, prev |-> HeldStream])

RemoveAt(q, k) == SubSeq(q, 1, k - 1) \o SubSeq(q, k + 1, Len(q))

\* startCamera after its await, getUserMedia fulfilled with a stream of
\* device d. With no <video> mounted the assignment throws and the catch alerts.
startCameraResolved(k, d) ==
    /\ k \in 1..Len(pending)
    /\ d \in HostDevices
    /\ pending[k].dev # 0 => d = pending[k].dev
    /\ streams' = Append(streams, [dev |-> d, live |-> TRUE,
                                   superseded |-> pending[k].superseded,
                                   installed |-> ~previewImage])
    /\ pending' = RemoveAt(pending, k)
    /\ IF previewImage
       THEN /\ srcObject' = srcObject
            /\ lastAlert' = "Camera access failed"
            /\ lastOp' = OpStart("startThrew", d, pending[k].dev, pending[k].prev)
       ELSE /\ srcObject' = Len(streams) + 1
            /\ lastAlert' = lastAlert
            /\ lastOp' = OpStart("startOK", d, pending[k].dev, pending[k].prev)
    /\ UNCHANGED <<pipelineVars, flipVars, variant, hostCatalog, initPc, tempStream, cameras, selectedCameraId,
                   previewImage, loading, result, raw>>

\* startCamera after its await, getUserMedia rejected: the catch alerts.
startCameraRejected(k) ==
    /\ k \in 1..Len(pending)
    /\ pending' = RemoveAt(pending, k)
    /\ lastAlert' = "Camera access failed"
    /\ lastOp' = OpStart("startFailed", 0, pending[k].dev, pending[k].prev)
    /\ UNCHANGED <<pipelineVars, flipVars, variant, hostCatalog, initPc, tempStream, cameras, selectedCameraId,
                   previewImage, loading, result, raw, streams, srcObject>>

----------------------------------------------------------------------------
(* Startup: init, listCameras, selectDefaultCamera *)

selectDefaultCamera_noGuard(cams) ==
    LET chosen == findMainBackCamera(cams) IN
    /\ selectedCameraId' = chosen.deviceId
    /\ startCamera(chosen.deviceId)

selectDefaultCamera_noStart(cams) ==
    LET chosen == findMainBackCamera(cams) IN
    IF chosen = NoDevice
    THEN UNCHANGED <<selectedCameraId, streams, srcObject, pending>>
    ELSE /\ selectedCameraId' = chosen.deviceId
         /\ UNCHANGED <<streams, srcObject, pending>>

selectDefaultCamera(cams) ==
    LET chosen == findMainBackCamera(cams) IN
    IF chosen = NoDevice
    THEN UNCHANGED <<selectedCameraId, streams, srcObject, pending>>
    ELSE /\ selectedCameraId' = chosen.deviceId
         /\ startCamera(chosen.deviceId)

\* init: the probe getUserMedia({video: true}) is fulfilled; its track is
\* stopped at once and listCameras awaits enumerateDevices.
initProbeResolved ==
    /\ initPc = "probe"
    /\ initPc' = "enumerate"
    /\ tempStream' = "stopped"
    /\ lastOp' = Op("initProbeResolved", 0)
    /\ UNCHANGED <<pipelineVars, flipVars, variant, hostCatalog, cameras, selectedCameraId, previewImage, loading,
                   result, raw, streams, srcObject, pending, lastAlert>>

\* init: the probe is rejected; the catch alerts and nothing is enumerated.
initProbeRejected ==
    /\ initPc = "probe"
    /\ initPc' = "failed"
    /\ lastAlert' = "Camera permission failed"
    /\ lastOp' = Op("initProbeRejected", 0)
    /\ UNCHANGED <<pipelineVars, flipVars, variant, hostCatalog, tempStream, cameras, selectedCameraId, previewImage,
                   loading, result, raw, streams, srcObject, pending>>

\* listCameras after enumerateDevices: setCameras, selectDefaultCamera.
listCameras(cams) ==
    /\ initPc = "enumerate"
    /\ initPc' = "done"
    /\ cameras' = cams
    /\ selectDefaultCamera(cams)
    /\ lastOp' = OpStart("listCameras", 0, findMainBackCamera(cams).deviceId, HeldStream)
    /\ UNCHANGED <<pipelineVars, flipVars, variant, hostCatalog, tempStream, previewImage, loading, result, raw,
                   lastAlert>>

----------------------------------------------------------------------------
(* Capture/Preview state machine. LIVE is previewImage = null. *)

handleCameraChange_startsOld(newId) ==
    /\ Len(cameras) > 0
    /\ newId \in { cameras[i].deviceId : i \in 1..Len(cameras) }
    /\ newId # selectedCameraId
    /\ CanStart
    /\ selectedCameraId' = newId
    /\ previewImage' = FALSE
    /\ result' = result
    /\ raw' = raw
    /\ startCamera(selectedCameraId)
    /\ lastOp' = OpStart("handleCameraChange", 0, newId, HeldStream)
    /\ UNCHANGED <<pipelineVars, flipVars, variant, hostCatalog, initPc, tempStream, cameras, loading, lastAlert>>

\* The <select> is rendered once cameras is non-empty; onChange fires when
\* the option picked differs from the one shown.
handleCameraChange(newId) ==
    /\ Len(cameras) > 0
    /\ newId \in { cameras[i].deviceId : i \in 1..Len(cameras) }
    /\ newId # selectedCameraId
    /\ CanStart
    /\ selectedCameraId' = newId
    /\ previewImage' = FALSE
    /\ result' = "null"
    /\ raw' = ""
    /\ startCamera(newId)
    /\ lastOp' = OpStart("handleCameraChange", 0, newId, HeldStream)
    /\ UNCHANGED <<pipelineVars, flipVars, variant, hostCatalog, initPc, tempStream, cameras, loading, lastAlert>>

resume_noStart ==
    /\ previewImage' = FALSE
    /\ result' = "null"
    /\ raw' = ""
    /\ lastOp' = OpStart("resume", 0, selectedCameraId, HeldStream)
    /\ UNCHANGED <<pipelineVars, flipVars, variant, hostCatalog, initPc, tempStream, cameras, selectedCameraId,
                   loading, lastAlert, streams, srcObject, pending>>

resume_keepsResult ==
    /\ previewImage' = FALSE
    /\ result' = result
    /\ raw' = raw
    /\ startCamera(0)
    /\ lastOp' = OpStart("resume", 0, selectedCameraId, HeldStream)
    /\ UNCHANGED <<pipelineVars, flipVars, variant, hostCatalog, initPc, tempStream, cameras, selectedCameraId,
                   loading, lastAlert>>

\* handleCaptureClick with a preview shown: resume.
resume ==
    /\ previewImage' = FALSE
    /\ result' = "null"
    /\ raw' = ""
    /\ startCamera(selectedCameraId)
    /\ lastOp' = OpStart("resume", 0, selectedCameraId, HeldStream)
    /\ UNCHANGED <<pipelineVars, flipVars, variant, hostCatalog, initPc, tempStream, cameras, selectedCameraId,
                   loading, lastAlert>>

\* What captureImage does to the component up to its first await (and, in
\* part_000, what the upload's img.onload does): the preview is set, loading
\* is set, and the render that follows unmounts the <video> with whatever
\* it showed.
showPreview(op) ==
    /\ previewImage' = TRUE
    /\ loading' = TRUE
    /\ srcObject' = 0
    /\ lastOp' = Op(op, 0)
    /\ UNCHANGED <<flipVars, variant, hostCatalog, initPc, tempStream, cameras, selectedCameraId,
                   result, raw, streams, pending, lastAlert>>

\* captureImage up to its first await, the pipeline left out of the picture.
captureImage == showPreview("captureImage") /\ UNCHANGED pipelineVars

handleCaptureClick_inverted ==
    /\ ~loading
    /\ IF previewImage THEN captureImage ELSE CanStart /\ resume

\* The capture/resume button; it is disabled while loading.
handleCaptureClick ==
    /\ ~loading
    /\ IF previewImage THEN CanStart /\ resume ELSE captureImage

\* captureImage after its awaits: the endpoint answered ok, answered not ok,
\* or something threw; loading is cleared and the outcome is shown.
settled(outcome) ==
    /\ outcome \in {"ok", "notok", "threw"}
    /\ loading' = FALSE
    /\ result' = IF outcome = "ok" THEN "record" ELSE "error"
    /\ raw' = IF outcome = "ok" THEN "text" ELSE IF outcome = "notok" THEN "" ELSE raw
    /\ lastOp' = Op("captureSettled", 0)
    /\ UNCHANGED <<flipVars, variant, hostCatalog, initPc, tempStream, cameras, selectedCameraId,
                   previewImage, streams, srcObject, pending, lastAlert>>

\* The same with the pipeline left out of the picture: a capture is under
\* way for as long as loading is set.
captureSettled(outcome) == loading /\ settled(outcome) /\ UNCHANGED pipelineVars

----------------------------------------------------------------------------
(* The flip variants: part_001 (exact device ids) and part_002 (facing     *)
(* modes). Their <video> is always mounted and they never show a preview.  *)

FlipVariants == {"P001", "P002"}

LabelRearU    == <<"R", "e", "a", "r">>
LabelWideBack == <<"w", "i", "d", "e", "b", "a", "c", "k">>

FlipLabels == {LabelEmpty, LabelBack1, LabelFront0, LabelRearU, LabelWideBack}

StrRear        == <<"r", "e", "a", "r">>
StrEnvironment == <<"e", "n", "v", "i", "r", "o", "n", "m", "e", "n", "t">>
StrFront       == <<"f", "r", "o", "n", "t">>
StrUser        == <<"u", "s", "e", "r">>
StrUltra       == <<"u", "l", "t", "r", "a">>
StrWide        == <<"w", "i", "d", "e">>
StrTele        == <<"t", "e", "l", "e">>

FlipCatalogsOfLen(n) ==
    { [i \in 1..n |-> [deviceId |-> i, label |-> ls[i]]] : ls \in [1..n -> FlipLabels] }

FlipCatalogs == UNION { FlipCatalogsOfLen(n) : n \in 0..MaxCams }

\* enumerateDevices() without camera permission: the labels are empty.
Unlabelled(cat) == [i \in 1..Len(cat) |-> [deviceId |-> cat[i].deviceId, label |-> LabelEmpty]]

\* (d.label || "").toLowerCase() matched against the rear words
IsRear(c) ==
    LET label == toLowerCase(c.label) IN
    includes(label, StrBack) \/ includes(label, StrRear) \/ includes(label, StrEnvironment)

\* ... against the front words
IsFront(c) ==
    LET label == toLowerCase(c.label) IN
    includes(label, StrFront) \/ includes(label, StrUser)

\* ... against the words part_002 takes for an auxiliary lens
IsAuxLens(c) ==
    LET lbl == toLowerCase(c.label) IN
    includes(lbl, StrUltra) \/ includes(lbl, StrWide) \/ includes(lbl, StrTele)

\* a || b on device ids
Or(a, b) == IF a # 0 THEN a ELSE b

\* The deviceId at position i of a list, 0 (null) where the list has no such position.
IdAt(list, i) == IF i \in 1..Len(list) THEN list[i].deviceId ELSE 0

\* part_001 enumerateAndChooseDevices, the choice it makes from the list:
\* the first rear label, else the last device of several; the first front
\* label, else the first device; current is back || front || first || null.
enumerateAndChoose(videoDevices) ==
    LET n == Len(videoDevices)
        back0 == IdAt(videoDevices, find([i \in 1..n |-> IsRear(videoDevices[i])]))
        front0 == IdAt(videoDevices, find([i \in 1..n |-> IsFront(videoDevices[i])]))
        back == IF back0 = 0 /\ n > 1 THEN IdAt(videoDevices, n) ELSE back0
        front == IF front0 = 0 /\ n > 0 THEN IdAt(videoDevices, 1) ELSE front0
    IN [back |-> back, front |-> front,
        current |-> Or(back, Or(front, IdAt(videoDevices, 1)))]

\* part_002 setupDevices, the choice it makes from the list: the first front
\* label; the first rear label that is no auxiliary lens, else the first rear
\* label, else the first device; front falls back to the second device.
setupChoice(videoInputs) ==
    LET n == Len(videoInputs)
        front0 == IdAt(videoInputs, find([i \in 1..n |-> IsFront(videoInputs[i])]))
        good == IdAt(videoInputs, find([i \in 1..n |-> IsRear(videoInputs[i]) /\ ~IsAuxLens(videoInputs[i])]))
        any == IdAt(videoInputs, find([i \in 1..n |-> IsRear(videoInputs[i])]))
        back0 == Or(good, any)
        back == IF back0 = 0 /\ n > 0 THEN IdAt(videoInputs, 1) ELSE back0
        front == IF front0 = 0 /\ n > 1 THEN IdAt(videoInputs, 2) ELSE front0
    IN [back |-> back, front |-> front, current |-> Or(back, front)]

\* The mount effect's probe getUserMedia({video: true}) is fulfilled. Neither
\* variant stops the probe stream here: part_001 goes on to enumerate,
\* part_002 calls stopStream(), which acts on the viewport's stream instead.
flipProbeResolved ==
    /\ variant \in FlipVariants
    /\ initPc = "probe"
    /\ initPc' = "enumerate"
    /\ tempStream' = "live"
    /\ LET st == IF variant = "P002" THEN stopCurrentStream(streams, srcObject)
                 ELSE [streams |-> streams, srcObject |-> srcObject, threw |-> FALSE]
       IN /\ streams' = st.streams
          /\ srcObject' = st.srcObject
    /\ trip' = NoTrip
    /\ lastOp' = Op("flipProbeResolved", 0)
    /\ UNCHANGED <<pipelineVars, captureVars, variant, hostCatalog, cameras, pending, currentDeviceId,
                   backDeviceId, frontDeviceId, cameraStarted, cameraError>>

flipProbeRejected_uncaught ==
    /\ variant \in FlipVariants
    /\ initPc = "probe"
    /\ initPc' = "crashed"
    /\ trip' = NoTrip
    /\ lastOp' = Op("flipProbeRejected", 0)
    /\ UNCHANGED <<pipelineVars, captureVars, variant, hostCatalog, tempStream, cameras, streams, srcObject,
                   pending, currentDeviceId, backDeviceId, frontDeviceId, cameraStarted,
                   cameraError>>

\* The probe is rejected (permission denied). part_001 catches it in place
\* and goes on to enumerate; part_002's outer catch logs it and gives up.
flipProbeRejected ==
    /\ variant \in FlipVariants
    /\ initPc = "probe"
    /\ initPc' = IF variant = "P001" THEN "enumerate" ELSE "failed"
    /\ trip' = NoTrip
    /\ lastOp' = Op("flipProbeRejected", 0)
    /\ UNCHANGED <<pipelineVars, captureVars, variant, hostCatalog, tempStream, cameras, streams, srcObject,
                   pending, currentDeviceId, backDeviceId, frontDeviceId, cameraStarted,
                   cameraError>>

\* part_001 enumerateAndChooseDevices after enumerateDevices(): the list is
\* label-less unless the probe was granted; the probe stream is stopped last.
enumerateAndChooseDevices ==
    /\ variant = "P001"
    /\ initPc = "enumerate"
    /\ initPc' = "done"
    /\ LET videoDevices == IF tempStream = "live" THEN hostCatalog ELSE Unlabelled(hostCatalog)
           chosen == enumerateAndChoose(videoDevices)
       IN /\ cameras' = videoDevices
          /\ backDeviceId' = chosen.back
          /\ frontDeviceId' = chosen.front
          /\ currentDeviceId' = chosen.current
          /\ lastOp' = Op("enumerateAndChooseDevices", chosen.current)
    /\ tempStream' = IF tempStream = "live" THEN "stopped" ELSE tempStream
    /\ trip' = NoTrip
    /\ UNCHANGED <<pipelineVars, captureVars, variant, hostCatalog, streams, srcObject, pending,
                   cameraStarted, cameraError>>

\* part_002 setupDevices after enumerateDevices(); tempStream is not touched.
setupDevices ==
    /\ variant = "P002"
    /\ initPc = "enumerate"
    /\ initPc' = "done"
    /\ LET chosen == setupChoice(hostCatalog)
       IN /\ cameras' = hostCatalog
          /\ backDeviceId' = chosen.back
          /\ frontDeviceId' = chosen.front
          /\ currentDeviceId' = chosen.current
          /\ lastOp' = Op("setupDevices", chosen.current)
    /\ trip' = NoTrip
    /\ UNCHANGED <<pipelineVars, captureVars, variant, hostCatalog, tempStream, streams, srcObject, pending,
                   cameraStarted, cameraError>>

\* A start of the flip variants up to its await: stopCurrentStream()
\* (part_002: stopStream()), then getUserMedia is issued, for an exact device
\* id (facing "none") or for a facing mode (dev 0).
flipStart(deviceId, facingMode) ==
    LET st == stopCurrentStream(streams, srcObject) IN
    /\ streams' = st.streams
    /\ srcObject' = st.srcObject
    /\ pending' = Append([k \in 1..Len(pending) |-> [pending[k] EXCEPT !.superseded = TRUE]],
                         [dev |-> deviceId, facing |-> facingMode,
                          superseded |-> FALSE, prev |-> HeldStream])

\* part_001 startCameraWithDevice up to its await: a null id asks for the
\* environment-facing camera instead.
startCameraWithDevice(deviceId) ==
    flipStart(deviceId, IF deviceId # 0 THEN "none" ELSE "environment")

\* part_002 startCamera(facingMode) up to its await.
startCameraFacing(facingMode) == flipStart(0, facingMode)

\* A start of the flip variants after its await, getUserMedia fulfilled with
\* a stream of device d: an exact id gets that device, a facing mode gets the
\* device the host picks. The id the track reports becomes currentDeviceId;
\* part_002 also rebinds the back or front id to it and sets cameraStarted.
flipStartResolved(k, d) ==
    /\ variant \in FlipVariants
    /\ k \in 1..Len(pending)
    /\ d \in HostDevices
    /\ pending[k].dev # 0 => d = pending[k].dev
    /\ streams' = Append(streams, [dev |-> d, live |-> TRUE,
                                   superseded |-> pending[k].superseded,
                                   installed |-> TRUE])
    /\ srcObject' = Len(streams) + 1
    /\ pending' = RemoveAt(pending, k)
    /\ currentDeviceId' = d
    /\ backDeviceId' = IF variant = "P002" /\ pending[k].facing = "environment"
                       THEN d ELSE backDeviceId
    /\ frontDeviceId' = IF variant = "P002" /\ pending[k].facing = "user"
                        THEN d ELSE frontDeviceId
    /\ cameraStarted' = IF variant = "P002" THEN TRUE ELSE cameraStarted
    /\ cameraError' = FALSE
    /\ trip' = IF trip.n \in {1, 3} THEN [trip EXCEPT !.n = trip.n + 1] ELSE NoTrip
    /\ lastOp' = OpStart("startOK", d, pending[k].dev, pending[k].prev)
    /\ UNCHANGED <<pipelineVars, captureVars, variant, hostCatalog, initPc, tempStream, cameras>>

\* A start of the flip variants after its await, getUserMedia rejected.
flipStartRejected(k) ==
    /\ variant \in FlipVariants
    /\ k \in 1..Len(pending)
    /\ pending' = RemoveAt(pending, k)
    /\ cameraError' = TRUE
    /\ trip' = NoTrip
    /\ lastOp' = OpStart("startFailed", 0, pending[k].dev, pending[k].prev)
    /\ UNCHANGED <<pipelineVars, captureVars, variant, hostCatalog, initPc, tempStream, cameras, streams,
                   srcObject, currentDeviceId, backDeviceId, frontDeviceId, cameraStarted>>

\* The Start Camera button. part_001 handleStartCamera (shown until
\* cameraReady): setCameraReady(true), startCameraWithDevice(currentDeviceId).
\* part_002 (the round button while !cameraStarted): startCamera("environment").
handleStartCamera ==
    /\ variant \in FlipVariants
    /\ ~cameraStarted
    /\ CanStart
    /\ IF variant = "P001"
       THEN /\ cameraStarted' = TRUE
            /\ startCameraWithDevice(currentDeviceId)
            /\ lastOp' = OpStart("handleStartCamera", currentDeviceId, currentDeviceId, HeldStream)
       ELSE /\ cameraStarted' = cameraStarted
            /\ startCameraFacing("environment")
            /\ lastOp' = OpStart("handleStartCamera", currentDeviceId, 0, HeldStream)
    /\ trip' = NoTrip
    /\ UNCHANGED <<pipelineVars, captureVars, variant, hostCatalog, initPc, tempStream, cameras,
                   currentDeviceId, backDeviceId, frontDeviceId, cameraError>>

\* The Retry link shown with the camera error.
retry ==
    /\ variant \in FlipVariants
    /\ cameraError
    /\ CanStart
    /\ IF variant = "P001"
       THEN /\ startCameraWithDevice(currentDeviceId)
            /\ lastOp' = OpStart("retry", currentDeviceId, currentDeviceId, HeldStream)
       ELSE /\ startCameraFacing("environment")
            /\ lastOp' = OpStart("retry", currentDeviceId, 0, HeldStream)
    /\ trip' = NoTrip
    /\ UNCHANGED <<pipelineVars, captureVars, variant, hostCatalog, initPc, tempStream, cameras,
                   currentDeviceId, backDeviceId, frontDeviceId, cameraStarted, cameraError>>

flipTarget_swapped(current, back, front, devices) ==
    IF current = back THEN Or(back, IdAt(devices, 1)) ELSE Or(front, IdAt(devices, 1))

\* part_001 flipCamera, its target: from the preferred back device to the
\* preferred front one, from any other device to the preferred back one,
\* each falling back to the first device.
flipTarget(current, back, front, devices) ==
    IF current = back THEN Or(front, IdAt(devices, 1)) ELSE Or(back, IdAt(devices, 1))

\* part_002 flipCamera, its target facing mode.
flipFacing(current, back, front) ==
    IF current # 0 /\ back # 0 /\ current = back THEN "user" ELSE "environment"

\* The flip round trip: a flip made from the back device with no start in
\* flight sets out on a trip; the flip after its start completed is the
\* second leg; any other flip abandons the trip.
tripOnFlip ==
    IF pending = <<>> /\ trip.n = 2 THEN [trip EXCEPT !.n = 3]
    ELSE IF pending = <<>> /\ currentDeviceId # 0 /\ currentDeviceId = backDeviceId
         THEN [origin |-> currentDeviceId, n |-> 1]
         ELSE NoTrip

\* The Flip button. part_001 shows it once cameraReady and starts the target
\* device if there is one; part_002 always shows it and starts the target
\* facing mode.
flipCamera ==
    /\ variant \in FlipVariants
    /\ CanStart
    /\ IF variant = "P001"
       THEN LET target == flipTarget(currentDeviceId, backDeviceId, frontDeviceId, cameras) IN
            /\ cameraStarted
            /\ IF target # 0
               THEN startCameraWithDevice(target) /\ trip' = tripOnFlip
               ELSE UNCHANGED <<streams, srcObject, pending>> /\ trip' = NoTrip
            /\ lastOp' = OpStart("flipCamera", currentDeviceId, target, HeldStream)
       ELSE /\ startCameraFacing(flipFacing(currentDeviceId, backDeviceId, frontDeviceId))
            /\ trip' = tripOnFlip
            /\ lastOp' = OpStart("flipCamera", currentDeviceId, 0, HeldStream)
    /\ UNCHANGED <<pipelineVars, captureVars, variant, hostCatalog, initPc, tempStream, cameras,
                   currentDeviceId, backDeviceId, frontDeviceId, cameraStarted, cameraError>>

----------------------------------------------------------------------------
(* The enhancement pipeline: processWithOpenCV of App.jsx ("App"), of      *)
(* part_000 ("P000", LAB pipeline with validation) and of the second       *)
(* component of part_001 ("P001b", no sharpening). cv.Mat, cv.MatVector    *)
(* and cv.CLAHE objects live until delete() is called on them.             *)

EnhanceVariants == {"App", "P000", "P001b"}

MaxWidth == 4       \* frame widths 0..MaxWidth (and one very wide frame)
MaxHeight == 3      \* frame heights 0..MaxHeight

TargetWidthApp == 512
TargetWidthP000 == 720

\* const TARGET_WIDTH of the variant running
TARGET_WIDTH == IF variant = "P000" THEN TargetWidthP000 ELSE TargetWidthApp

\* A frame more than twice as wide as any target width.
WideWidth == 2 * TargetWidthP000 + 1

NoCanvas == [width |-> 0, height |-> 0, pixels |-> "none"]

\* The canvases processWithOpenCV may be called with: captureImage has set
\* the size to the video's (0 x 0 before any frame) and drawn the frame.
Frames ==
    { [width |-> w, height |-> h, pixels |-> "frame"] :
          w \in (0..MaxWidth) \cup {WideWidth}, h \in 0..MaxHeight }

\* Math.round(rows * (TARGET_WIDTH / cols)) in double arithmetic: the exact
\* quotient rounded half up; where the exact quotient ends in .5 the two
\* roundings of the double computation may land on either side.
RoundScaled(rows, target, cols) ==
    LET q == (2 * rows * target + cols) \div (2 * cols)
    IN IF (2 * rows * target) % (2 * cols) = cols THEN {q - 1, q} ELSE {q}

\* What the variant has allocated once every stage before the resize has
\* run (src included), and what its cleanup block deletes.
StageMats ==
    CASE variant = "App" -> {"src", "gray", "clahed", "sharpened", "resized", "clahe", "kernel"}
      [] variant = "P001b" -> {"src", "gray", "clahed", "sharpened", "resized", "clahe"}
      [] OTHER -> {"src", "lab", "merged", "resized", "channels", "L", "A", "B", "clahe",
                   "mergedChannels"}

\* The Mats allocated before the first cv call after imread.
EarlyMats ==
    IF variant = "P000" THEN {"src", "lab", "merged", "resized", "channels"}
    ELSE {"src", "gray", "clahed", "sharpened", "resized"}

\* The delete() calls of the cleanup block, in order; part_001 names a
\* kernel that it never declared.
CleanupOrder ==
    CASE variant = "App" -> <<"src", "gray", "clahed", "sharpened", "resized", "kernel", "clahe">>
      [] variant = "P001b" -> <<"src", "gray", "clahed", "sharpened", "resized", "kernel", "clahe">>
      [] OTHER -> <<"src", "lab", "merged", "resized", "channels", "mergedChannels", "clahe">>

\* The names the variant declares.
Declared ==
    IF variant = "P001b" THEN StageMats ELSE StageMats \cup {"mergedChannels", "kernel"}

\* Everything the camera machines own.
cameraVars == <<hostCatalog, initPc, tempStream, cameras, streams, srcObject, pending,
                lastOp, captureVars, flipVars>>

imread_emptyMat ==
    /\ enhPc = "start"
    /\ IF variant = "P000" /\ (canvas.width = 0 \/ canvas.height = 0)
       THEN /\ enhPc' = "threw"
            /\ enhOut' = "Empty canvas image."
            /\ mats' = mats
       ELSE /\ enhPc' = "read"
            /\ enhOut' = enhOut
            /\ mats' = {"src"}
    /\ UNCHANGED <<variant, cameraVars, ocrVars, flowVars, canvas, frame>>

\* processWithOpenCV to its first stage: cv.imread(canvas) reads the pixels
\* with getImageData, which throws IndexSizeError for a canvas of zero width
\* or height: nothing is allocated then. part_000's own check of src for
\* zero cols or rows comes after it and so never finds any.
imread ==
    /\ enhPc = "start"
    /\ IF canvas.width = 0 \/ canvas.height = 0
       THEN /\ enhPc' = "threw"
            /\ enhOut' = "IndexSizeError"
            /\ mats' = mats
       ELSE /\ enhPc' = "read"
            /\ enhOut' = enhOut
            /\ mats' = {"src"}
    /\ UNCHANGED <<variant, cameraVars, ocrVars, flowVars, canvas, frame>>

\* The stages up to the resize: the working Mats are allocated, then the
\* colour conversion, CLAHE (and the sharpening filter) run. A cv call on an
\* empty Mat throws, leaving what was allocated before it.
stages ==
    /\ enhPc = "read"
    /\ IF canvas.width = 0 \/ canvas.height = 0
       THEN /\ enhPc' = "threw"
            /\ enhOut' = "cv error"
            /\ mats' = EarlyMats
       ELSE /\ enhPc' = "staged"
            /\ enhOut' = enhOut
            /\ mats' = StageMats
    /\ UNCHANGED <<variant, cameraVars, ocrVars, flowVars, canvas, frame>>

resizeAndDraw_keepsCanvas(newHeight) ==
    /\ enhPc = "staged"
    /\ newHeight \in RoundScaled(canvas.height, TARGET_WIDTH, canvas.width)
    /\ IF newHeight = 0
       THEN /\ enhPc' = "threw"
            /\ enhOut' = "cv error"
       ELSE /\ enhPc' = "drawn"
            /\ enhOut' = "base64"
    /\ UNCHANGED <<variant, cameraVars, ocrVars, flowVars, canvas, frame, mats>>

\* The resize to TARGET_WIDTH x newHeight, then the result is drawn back on
\* the canvas it came from and the canvas is encoded. cv.resize takes a
\* size without height as no size, finds no scale factors to compute one
\* from and throws.
resizeAndDraw(newHeight) ==
    /\ enhPc = "staged"
    /\ newHeight \in RoundScaled(canvas.height, TARGET_WIDTH, canvas.width)
    /\ IF newHeight = 0
       THEN /\ enhPc' = "threw"
            /\ enhOut' = "cv error"
            /\ canvas' = canvas
       ELSE /\ enhPc' = "drawn"
            /\ canvas' = [width |-> TARGET_WIDTH, height |-> newHeight, pixels |-> "enhanced"]
            /\ enhOut' = "base64"
    /\ UNCHANGED <<variant, cameraVars, ocrVars, flowVars, frame, mats>>

\* The names of a cleanup order up to, not including, the first one that is
\* not declared; the whole order if all are.
RECURSIVE DeletedBeforeThrow(_)
DeletedBeforeThrow(order) ==
    IF order = <<>> \/ Head(order) \notin Declared THEN {}
    ELSE {Head(order)} \cup DeletedBeforeThrow(Tail(order))

\* The cleanup block and the return: each delete() in order; naming an
\* undeclared variable throws ReferenceError and the rest is skipped.
cleanup ==
    /\ enhPc = "drawn"
    /\ mats' = mats \ DeletedBeforeThrow(CleanupOrder)
    /\ IF \E i \in 1..Len(CleanupOrder) : CleanupOrder[i] \notin Declared
       THEN /\ enhPc' = "threw"
            /\ enhOut' = "ReferenceError"
       ELSE /\ enhPc' = "returned"
            /\ enhOut' = enhOut
    /\ UNCHANGED <<variant, cameraVars, ocrVars, flowVars, canvas, frame>>

----------------------------------------------------------------------------
(* The extraction endpoint: the handler of api/ocr.js ("ocr"), of part_006 *)
(* ("P006", no database insert) and the POST route of part_004 ("P004").   *)
(* A text is the sequence of its tokens; a JavaScript value is written as  *)
(* the token sequence of its text, undefined and null as markers.          *)

OcrVariants == {"ocr", "P006", "P004"}

MaxText == 3        \* tokens in the text the model answers, fence apart
MaxNotes == 3       \* tokens a truncated copy of a text may keep

\* The three backquotes of a markdown fence.
Fence == "FENCE"
Json == "json"
Newline == "\n"
MemberReading == "\"meter_reading\":\"123\""
MemberConfidence == "\"confidence\":\"high\""

\* What a text without fences is made of.
BareTokens == {"{", "}", ",", MemberReading, MemberConfidence, "null", "prose"}

RECURSIVE TextsOfLen(_)
TextsOfLen(n) ==
    IF n = 0 THEN {<<>>}
    ELSE { Append(t, k) : t \in TextsOfLen(n - 1), k \in BareTokens }

BareTexts == UNION { TextsOfLen(n) : n \in 0..MaxText }

Wrappings == {"bare", "json fence", "fence"}

\* The text as is, in a ```json ... ``` fence or in a ``` ... ``` fence.
Wrap(wrapping, text) ==
    CASE wrapping = "json fence" -> <<Fence, Json, Newline>> \o text \o <<Newline, Fence>>
      [] wrapping = "fence" -> <<Fence, Newline>> \o text \o <<Newline, Fence>>
      [] OTHER -> text

\* What the model may answer: a text, fenced or not, a newline after it or
\* not.
UpstreamTexts ==
    { Wrap(w, t) \o pad : w \in Wrappings, t \in BareTexts, pad \in {<<>>, <<Newline>>} }

RECURSIVE TrimStart(_)
TrimStart(text) ==
    IF text # <<>> /\ Head(text) = Newline THEN TrimStart(Tail(text)) ELSE text

RECURSIVE TrimEnd(_)
TrimEnd(text) ==
    IF text # <<>> /\ text[Len(text)] = Newline
    THEN TrimEnd(SubSeq(text, 1, Len(text) - 1))
    ELSE text

\* String.prototype.trim
Trim(text) == TrimEnd(TrimStart(text))

\* text.replace(/```json|```/g, ""): every fence goes, with the json that
\* follows it directly.
RECURSIVE ReplaceFences(_)
ReplaceFences(text) ==
    IF text = <<>> THEN <<>>
    ELSE IF Head(text) = Fence
         THEN IF Len(text) >= 2 /\ text[2] = Json
              THEN ReplaceFences(SubSeq(text, 3, Len(text)))
              ELSE ReplaceFences(Tail(text))
         ELSE <<Head(text)>> \o ReplaceFences(Tail(text))

\* rawText.replace(/^```(?:json)?|```$/g, ""): a fence that opens the text
\* goes, with the json after it, and a fence that closes the text.
ReplaceEndFences(text) ==
    LET opened == IF text # <<>> /\ Head(text) = Fence
                  THEN IF Len(text) >= 2 /\ text[2] = Json
                       THEN SubSeq(text, 3, Len(text))
                       ELSE Tail(text)
                  ELSE text
    IN IF opened # <<>> /\ opened[Len(opened)] = Fence
       THEN SubSeq(opened, 1, Len(opened) - 1)
       ELSE opened

\* The text handed to JSON.parse.
Stripped(text) ==
    CASE variant = "ocr" -> Trim(ReplaceFences(text))
      [] variant = "P006" -> Trim(ReplaceEndFences(text))
      [] OTHER -> text

Keys == {"meter_reading", "register_type", "serial_number", "confidence", "notes"}

Undefined == <<"undefined">>
Null == <<"null">>

Members == {MemberReading, MemberConfidence}

MemberKey(member) == IF member = MemberReading THEN "meter_reading" ELSE "confidence"

MemberValue(member) == IF member = MemberReading THEN <<"123">> ELSE <<"high">>

NoParsed == [kind |-> "none", fields |-> [k \in Keys |-> Undefined]]

\* JSON.parse: white space between tokens is skipped; null is a value, and
\* so is an object of members separated by commas, a later member of a key
\* replacing an earlier one. Everything else is a SyntaxError.
JSONparse(text) ==
    LET t == SelectSeq(text, LAMBDA k : k # Newline)
        n == Len(t)
        inner == SubSeq(t, 2, n - 1)
        wellFormed ==
            /\ n >= 2
            /\ t[1] = "{"
            /\ t[n] = "}"
            /\ \/ inner = <<>>
               \/ /\ Len(inner) % 2 = 1
                  /\ \A i \in 1..Len(inner) :
                         IF i % 2 = 1 THEN inner[i] \in Members ELSE inner[i] = ","
        valueOf(k) ==
            LET at == { i \in 1..Len(inner) : inner[i] \in Members /\ MemberKey(inner[i]) = k }
            IN IF at = {} THEN Undefined
               ELSE MemberValue(inner[CHOOSE i \in at : \A j \in at : j <= i])
    IN IF t = <<"null">> THEN [kind |-> "null", fields |-> [k \in Keys |-> Undefined]]
       ELSE IF wellFormed THEN [kind |-> "object", fields |-> [k \in Keys |-> valueOf(k)]]
       ELSE [kind |-> "SyntaxError", fields |-> [k \in Keys |-> Undefined]]

NotesPrefix == "Could not parse response: "

\* The record of the catch block; part_004 puts no text in the notes.
DefaultRecord(text) ==
    [kind |-> "object",
     fields |-> [k \in Keys |->
                    CASE k = "confidence" -> <<"low">>
                      [] k = "notes" -> IF variant = "P004" THEN <<"Could not parse response">>
                                        ELSE <<NotesPrefix>> \o text
                      [] OTHER -> Null]]

normalize_noCatch(text) == JSONparse(Stripped(text))

\* try { parsed = JSON.parse(...) } catch { parsed = { ... } }
normalize(text) ==
    LET value == JSONparse(Stripped(text))
    IN IF value.kind = "SyntaxError" THEN DefaultRecord(text) ELSE value

NoRequest == [from |-> "none", method |-> "none", imageBase64 |-> FALSE]

\* The request App.jsx sends, and requests of any other caller.
Requests ==
    {[from |-> "app", method |-> "POST", imageBase64 |-> TRUE]}
        \cup { [from |-> "other", method |-> m, imageBase64 |-> i] :
                   m \in {"POST", "GET"}, i \in BOOLEAN }

NoResponse ==
    [status |-> 0, keys |-> {}, ok |-> FALSE, result |-> NoParsed, raw |-> <<>>,
     error |-> "", db_status |-> ""]

\* res.status(status).json({ error })
ErrorBody(status, error) ==
    [status |-> status, keys |-> {"error"}, ok |-> FALSE, result |-> NoParsed, raw |-> <<>>,
     error |-> error, db_status |-> ""]

\* res.status(500).json({ ok: false, error: err.message }); part_004
\* answers with a default record whose notes are the message.
Failure(message) ==
    IF variant = "P004"
    THEN [status |-> 500, keys |-> Keys, ok |-> FALSE,
          result |-> [kind |-> "object",
                      fields |-> [k \in Keys |-> CASE k = "confidence" -> <<"low">>
                                                   [] k = "notes" -> <<message>>
                                                   [] OTHER -> Null]],
          raw |-> <<>>, error |-> "", db_status |-> ""]
    ELSE [status |-> 500, keys |-> {"ok", "error"}, ok |-> FALSE, result |-> NoParsed,
          raw |-> <<>>, error |-> message, db_status |-> ""]

\* The 200 response: { ok: true, result, raw } and, in ocr.js, db_status;
\* part_004 answers with the record itself.
Success(record, text, dbStatus) ==
    CASE variant = "ocr" ->
             [status |-> 200, keys |-> {"ok", "result", "raw", "db_status"}, ok |-> TRUE,
              result |-> record, raw |-> text, error |-> "", db_status |-> dbStatus]
      [] variant = "P006" ->
             [status |-> 200, keys |-> {"ok", "result", "raw"}, ok |-> TRUE,
              result |-> record, raw |-> text, error |-> "", db_status |-> ""]
      [] OTHER ->
             [status |-> 200, keys |-> Keys, ok |-> FALSE,
              result |-> record, raw |-> <<>>, error |-> "", db_status |-> ""]

\* Everything the client side owns.
clientVars == <<cameraVars, enhanceVars>>

\* The handler up to its upstream call: the method check (part_004 is
\* routed by method), then the image check; part_004 splits the image it
\* did not get and fails.
checkRequest ==
    /\ ocrPc = "received"
    /\ IF variant # "P004" /\ request.method # "POST"
       THEN /\ response' = ErrorBody(405, "Method not allowed")
            /\ ocrPc' = "done"
       ELSE IF ~request.imageBase64
            THEN /\ response' = IF variant = "P004" THEN Failure("TypeError")
                                ELSE ErrorBody(400, "No image provided")
                 /\ ocrPc' = "done"
            ELSE /\ response' = response
                 /\ ocrPc' = "calling"
    /\ UNCHANGED <<variant, clientVars, flowVars, request, rawText, parsed>>

\* The upstream call fails: fetch rejects or the body is no JSON.
upstreamRejected ==
    /\ ocrPc = "calling"
    /\ response' = Failure("fetch failed")
    /\ ocrPc' = "done"
    /\ UNCHANGED <<variant, clientVars, flowVars, request, rawText, parsed>>

\* The upstream call answers with a text, or with no candidate (answered
\* <<>>): the text is taken (trimmed but in part_004, "" or "{}" for none)
\* and normalized. ocr.js goes on to build the row to insert, which reads
\* the members of parsed and fails on null; the others respond.
upstreamResolved(answered) ==
    /\ ocrPc = "calling"
    /\ answered \in UpstreamTexts
    /\ LET text == IF variant = "P004"
                   THEN IF answered = <<>> THEN <<"{", "}">> ELSE answered
                   ELSE Trim(answered)
           record == normalize(text)
       IN /\ rawText' = text
          /\ parsed' = record
          /\ IF variant = "ocr"
             THEN IF record.kind = "null"
                  THEN /\ response' = Failure("TypeError")
                       /\ ocrPc' = "done"
                  ELSE /\ response' = response
                       /\ ocrPc' = "inserting"
             ELSE /\ response' = Success(record, text, "")
                  /\ ocrPc' = "done"
    /\ UNCHANGED <<variant, clientVars, flowVars, request>>

\* ocr.js: supabase's insert resolves, with an error or without; an error
\* is logged, and the response is sent.
insertResolved(dbError) ==
    /\ ocrPc = "inserting"
    /\ response' = Success(parsed, rawText, IF dbError THEN "DB insert failed" ELSE "Inserted OK")
    /\ ocrPc' = "done"
    /\ records' = IF dbError THEN records ELSE records + 1
    /\ UNCHANGED <<variant, clientVars, request, rawText, parsed, tally>>

\* captureImage after its fetch: the response is read, loading is cleared,
\* and data.ok decides between the result and the error.
responseArrived ==
    /\ ocrPc = "done"
    /\ request.from = "app"
    /\ loading
    /\ settled(IF "ok" \in response.keys /\ response.ok THEN "ok" ELSE "notok")
    /\ tally' = [tally EXCEPT !.settled = @ + 1]
    /\ UNCHANGED <<enhanceVars, ocrVars, records>>

insertSettled_caught(error) ==
    /\ ~loading
    /\ lastOp = Op("captureSettled", 0)
    /\ result = "record"
    /\ lastOp' = Op(IF error THEN "insertFailed" ELSE "insertSaved", 0)
    /\ result' = IF error THEN "error" ELSE result
    /\ records' = IF error THEN records ELSE records + 1
    /\ UNCHANGED <<variant, enhanceVars, ocrVars, tally, flipVars, hostCatalog, initPc, tempStream, cameras,
                   streams, srcObject, pending, selectedCameraId, previewImage, loading, raw,
                   lastAlert>>

\* captureImage after a response with ok: its own insert resolves, with an
\* error or without, and is logged either way.
insertSettled(error) ==
    /\ ~loading
    /\ lastOp = Op("captureSettled", 0)
    /\ result = "record"
    /\ lastOp' = Op(IF error THEN "insertFailed" ELSE "insertSaved", 0)
    /\ records' = IF error THEN records ELSE records + 1
    /\ UNCHANGED <<variant, enhanceVars, ocrVars, tally, flipVars, hostCatalog, initPc, tempStream, cameras,
                   streams, srcObject, pending, captureVars>>

----------------------------------------------------------------------------
(* The capture flow of App.jsx and part_000 from the button to the shown   *)
(* result: the frame, loadOpenCV, processWithOpenCV, the fetch and what    *)
(* comes back. The endpoint's own steps are those of the section above.    *)

MaxCaptures == 2    \* capture commands and uploads in one run

\* videoWidth x videoHeight of the <video>: 0 x 0 while it plays nothing or
\* has no metadata yet, else the size of the stream's frames.
VideoFrames ==
    IF srcObject # 0 /\ streams[srcObject].live
    THEN { f \in Frames : (f.width = 0) = (f.height = 0) }
    ELSE { [width |-> 0, height |-> 0, pixels |-> "frame"] }

\* A new run begins: the canvas holds the frame f, processWithOpenCV is
\* called on it and waits for loadOpenCV; no request has been sent yet.
newRun(f) ==
    /\ canvas' = f
    /\ frame' = f
    /\ mats' = {}
    /\ enhPc' = "loading"
    /\ enhOut' = "none"
    /\ request' = NoRequest
    /\ rawText' = <<>>
    /\ parsed' = NoParsed
    /\ response' = NoResponse
    /\ ocrPc' = "idle"
    /\ records' = records

\* captureImage up to its first await, the pipeline in the picture: the
\* canvas takes the size of the video, the frame is drawn on it, and
\* processWithOpenCV is called with it, once.
captureFrame(f) ==
    /\ tally.captures < MaxCaptures
    /\ f \in VideoFrames
    /\ showPreview("captureImage")
    /\ newRun(f)
    /\ tally' = [tally EXCEPT !.captures = @ + 1, !.runs = @ + 1]

\* The capture/resume button with the pipeline in the picture.
captureClick ==
    /\ ~loading
    /\ IF previewImage THEN CanStart /\ resume ELSE \E f \in VideoFrames : captureFrame(f)

\* part_000's Upload button, enabled unless loading, and the file chosen
\* with it: the file is handed to a FileReader and then to an Image, and
\* the handler returns.
handleImageUpload ==
    /\ variant = "P000"
    /\ ~loading
    /\ tally.captures < MaxCaptures
    /\ tally' = [tally EXCEPT !.captures = @ + 1, !.picked = @ + 1]
    /\ lastOp' = Op("handleImageUpload", 0)
    /\ UNCHANGED <<variant, enhanceVars, ocrVars, records, flipVars, hostCatalog, initPc, tempStream,
                   cameras, streams, srcObject, pending, captureVars>>

\* The images a file may hold.
ImageFrames == { f \in Frames : f.width > 0 /\ f.height > 0 }

\* img.onload of a picked file: the canvas takes the size of the image, the
\* image is drawn on it, the preview and loading are set and
\* processWithOpenCV is called with the canvas; nothing is looked at first.
imgOnload(f) ==
    /\ tally.picked > 0
    /\ f \in ImageFrames
    /\ showPreview("imgOnload")
    /\ newRun(f)
    /\ tally' = [tally EXCEPT !.picked = @ - 1, !.runs = @ + 1]

\* The file cannot be read or is no image: no handler is set for that.
imgOnerror ==
    /\ tally.picked > 0
    /\ tally' = [tally EXCEPT !.picked = @ - 1]
    /\ lastOp' = Op("imgOnerror", 0)
    /\ UNCHANGED <<variant, enhanceVars, ocrVars, records, flipVars, hostCatalog, initPc, tempStream,
                   cameras, streams, srcObject, pending, captureVars>>

\* A run that was started comes to its end, the pipeline and the endpoint
\* taken as a whole: loading is cleared and the outcome is shown.
runSettled(outcome) ==
    /\ tally.settled < tally.runs
    /\ settled(outcome)
    /\ tally' = [tally EXCEPT !.settled = @ + 1]
    /\ UNCHANGED <<enhanceVars, ocrVars, records>>

\* loadOpenCV resolves: window.cv was there, or the script's onload fired.
loadOpenCVResolved ==
    /\ enhPc = "loading"
    /\ enhPc' = "start"
    /\ UNCHANGED <<variant, cameraVars, ocrVars, flowVars, canvas, frame, mats, enhOut>>

\* The script of the first loadOpenCV fails to load: onload never fires,
\* the promise has no other way to settle, and neither does the await.
scriptFailed ==
    /\ enhPc = "loading"
    /\ tally.runs = 1
    /\ enhPc' = "hung"
    /\ UNCHANGED <<variant, cameraVars, ocrVars, flowVars, canvas, frame, mats, enhOut>>

fetchIssued_beforeEnhance ==
    /\ enhPc \in {"loading", "returned"}
    /\ ocrPc = "idle"
    /\ request' = [from |-> "app", method |-> "POST", imageBase64 |-> enhOut = "base64"]
    /\ ocrPc' = "received"
    /\ tally' = [tally EXCEPT !.requests = @ + 1]
    /\ UNCHANGED <<variant, cameraVars, enhanceVars, rawText, parsed, response, records>>

\* captureImage after processWithOpenCV returned: the fetch to /api/ocr,
\* its body the returned image.
fetchIssued ==
    /\ enhPc = "returned"
    /\ ocrPc = "idle"
    /\ request' = [from |-> "app", method |-> "POST", imageBase64 |-> enhOut = "base64"]
    /\ ocrPc' = "received"
    /\ tally' = [tally EXCEPT !.requests = @ + 1]
    /\ UNCHANGED <<variant, cameraVars, enhanceVars, rawText, parsed, response, records>>

\* captureImage's catch after processWithOpenCV threw: loading is cleared
\* and the error is shown; the fetch is skipped.
enhanceThrew ==
    /\ enhPc = "threw"
    /\ loading
    /\ settled("threw")
    /\ tally' = [tally EXCEPT !.settled = @ + 1]
    /\ UNCHANGED <<enhanceVars, ocrVars, records>>

\* captureImage after its fetch, the endpoint taken as a whole: it answers
\* ok or not ok, or the fetch or res.json() rejects.
fetchSettled(outcome) ==
    /\ ocrPc = "received"
    /\ request.from = "app"
    /\ loading
    /\ settled(outcome)
    /\ tally' = [tally EXCEPT !.settled = @ + 1]
    /\ UNCHANGED <<enhanceVars, ocrVars, records>>

----------------------------------------------------------------------------
(* Specifications *)

\* No processWithOpenCV call has been made.
EnhanceIdle ==
    /\ canvas = NoCanvas
    /\ frame = NoCanvas
    /\ mats = {}
    /\ enhPc = "idle"
    /\ enhOut = "none"

\* No request has reached /api/ocr.
OcrIdle ==
    /\ request = NoRequest
    /\ rawText = <<>>
    /\ parsed = NoParsed
    /\ response = NoResponse
    /\ ocrPc = "idle"

\* The counts of the capture flow: capture and upload commands taken, calls
\* of processWithOpenCV, requests sent to /api/ocr, runs that have settled,
\* and (part_000) files picked whose image has not loaded yet.
NoTally == [captures |-> 0, runs |-> 0, requests |-> 0, settled |-> 0, picked |-> 0]

\* Nothing captured, nothing stored.
FlowIdle ==
    /\ records = 0
    /\ tally = NoTally

\* The camera machines as mounted, whatever the variant and the host.
CameraMounted ==
    /\ initPc = "probe"
    /\ tempStream = "none"
    /\ cameras = <<>>
    /\ selectedCameraId = 0
    /\ previewImage = FALSE
    /\ loading = FALSE
    /\ result = "null"
    /\ raw = ""
    /\ streams = <<>>
    /\ srcObject = 0
    /\ pending = <<>>
    /\ lastAlert = "none"
    /\ lastOp = Op("mount", 0)
    /\ currentDeviceId = 0
    /\ backDeviceId = 0
    /\ frontDeviceId = 0
    /\ cameraStarted = FALSE
    /\ cameraError = FALSE
    /\ trip = NoTrip

\* The component as mounted, whatever the variant and the host.
Mounted ==
    /\ CameraMounted
    /\ EnhanceIdle
    /\ OcrIdle
    /\ FlowIdle

InitWith(catalogs) ==
    /\ variant \in Variants
    /\ hostCatalog \in catalogs
    /\ Mounted

Init == InitWith(HostCatalogs)

ListCameras == listCameras(hostCatalog)

StartCameraResolved == \E k \in 1..MaxPending, d \in 1..MaxCams : startCameraResolved(k, d)

StartCameraRejected == \E k \in 1..MaxPending : startCameraRejected(k)

HandleCameraChange == \E newId \in 1..MaxCams : handleCameraChange(newId)

CaptureSettled == \E outcome \in {"ok", "notok", "threw"} : captureSettled(outcome)

Next ==
    \/ initProbeResolved
    \/ initProbeRejected
    \/ ListCameras
    \/ StartCameraResolved
    \/ StartCameraRejected
    \/ HandleCameraChange
    \/ handleCaptureClick
    \/ CaptureSettled

Spec == Init /\ [][Next]_vars

\* Startup alone, over every catalog of up to MaxCams devices.
InitSelect == InitWith(AllCatalogs)

NextSelect ==
    \/ initProbeResolved
    \/ initProbeRejected
    \/ ListCameras

SpecSelect == InitSelect /\ [][NextSelect]_vars

\* Startup left to itself: the permission probe is granted, enumeration
\* answers and every acquisition is fulfilled; no user command. Each of these
\* is the continuation of a fulfilled promise, which the event loop runs.
NextStartup ==
    \/ initProbeResolved
    \/ ListCameras
    \/ StartCameraResolved

SpecStartup == InitSelect /\ [][NextStartup]_vars /\ WF_vars(NextStartup)

\* The mount effect of every variant, over every catalog of up to MaxCams
\* devices labelled from FlipLabels.
InitEnum ==
    /\ variant \in Variants \cup FlipVariants
    /\ hostCatalog \in FlipCatalogs
    /\ Mounted

NextEnum ==
    \/ variant \in Variants /\ initProbeResolved
    \/ variant \in Variants /\ initProbeRejected
    \/ variant \in Variants /\ ListCameras
    \/ flipProbeResolved
    \/ flipProbeRejected
    \/ enumerateAndChooseDevices
    \/ setupDevices

SpecEnum == InitEnum /\ [][NextEnum]_vars

\* The flip variants: mount effect, Start, Retry and Flip.
\* Catalogs the host of the flip machine may answer with: label-less ones
\* of one, two and three devices, and two labelled ones.
FlipHostCatalogs ==
    { <<[deviceId |-> 1, label |-> LabelEmpty]>>,
      <<[deviceId |-> 1, label |-> LabelEmpty], [deviceId |-> 2, label |-> LabelEmpty]>>,
      <<[deviceId |-> 1, label |-> LabelEmpty], [deviceId |-> 2, label |-> LabelEmpty],
        [deviceId |-> 3, label |-> LabelEmpty]>>,
      <<[deviceId |-> 1, label |-> LabelFront0], [deviceId |-> 2, label |-> LabelBack1]>>,
      <<[deviceId |-> 1, label |-> LabelWideBack], [deviceId |-> 2, label |-> LabelRearU],
        [deviceId |-> 3, label |-> LabelFront0]>> }

InitFlip ==
    /\ variant \in FlipVariants
    /\ hostCatalog \in FlipHostCatalogs
    /\ Mounted

FlipStartResolved == \E k \in 1..MaxPending, d \in 1..MaxCams : flipStartResolved(k, d)

FlipStartRejected == \E k \in 1..MaxPending : flipStartRejected(k)

NextFlip ==
    \/ flipProbeResolved
    \/ flipProbeRejected
    \/ enumerateAndChooseDevices
    \/ setupDevices
    \/ handleStartCamera
    \/ retry
    \/ flipCamera
    \/ FlipStartResolved
    \/ FlipStartRejected

SpecFlip == InitFlip /\ [][NextFlip]_vars

\* One processWithOpenCV call, on every canvas of Frames.
InitEnhance ==
    /\ variant \in EnhanceVariants
    /\ hostCatalog = <<>>
    /\ CameraMounted
    /\ OcrIdle
    /\ FlowIdle
    /\ canvas \in Frames
    /\ frame = canvas
    /\ mats = {}
    /\ enhPc = "start"
    /\ enhOut = "none"

ResizeAndDraw ==
    \E newHeight \in 0..(MaxHeight * TargetWidthP000) : resizeAndDraw(newHeight)

NextEnhance ==
    \/ imread
    \/ stages
    \/ ResizeAndDraw
    \/ cleanup

SpecEnhance == InitEnhance /\ [][NextEnhance]_vars

\* App.jsx waiting for the response to its fetch: one camera, its stream
\* live, a frame captured and enhanced, the preview shown.
ClientWaiting ==
    /\ hostCatalog = <<[deviceId |-> 1, label |-> LabelBack0]>>
    /\ cameras = hostCatalog
    /\ initPc = "done"
    /\ tempStream = "stopped"
    /\ selectedCameraId = 1
    /\ streams = <<[dev |-> 1, live |-> TRUE, superseded |-> FALSE, installed |-> TRUE]>>
    /\ srcObject = 0
    /\ pending = <<>>
    /\ previewImage = TRUE
    /\ loading = TRUE
    /\ result = "null"
    /\ raw = ""
    /\ lastAlert = "none"
    /\ lastOp = Op("captureImage", 0)
    /\ currentDeviceId = 0
    /\ backDeviceId = 0
    /\ frontDeviceId = 0
    /\ cameraStarted = FALSE
    /\ cameraError = FALSE
    /\ trip = NoTrip
    /\ frame = [width |-> 1, height |-> 1, pixels |-> "frame"]
    /\ canvas = [width |-> TargetWidthApp, height |-> TargetWidthApp, pixels |-> "enhanced"]
    /\ mats = {}
    /\ enhPc = "returned"
    /\ enhOut = "base64"
    /\ records = 0
    /\ tally = [NoTally EXCEPT !.captures = 1, !.runs = 1, !.requests = 1]

\* One request to the endpoint, from App.jsx or from any other caller.
InitOcr ==
    /\ variant \in OcrVariants
    /\ request \in Requests
    /\ rawText = <<>>
    /\ parsed = NoParsed
    /\ response = NoResponse
    /\ ocrPc = "received"
    /\ IF request.from = "app"
       THEN ClientWaiting
       ELSE hostCatalog = <<>> /\ CameraMounted /\ EnhanceIdle /\ FlowIdle

UpstreamResolved ==
    /\ ocrPc = "calling"
    /\ \E answered \in UpstreamTexts : upstreamResolved(answered)

InsertResolved == \E dbError \in BOOLEAN : insertResolved(dbError)

InsertSettled == \E error \in BOOLEAN : insertSettled(error)

NextOcr ==
    \/ checkRequest
    \/ upstreamRejected
    \/ UpstreamResolved
    \/ InsertResolved
    \/ responseArrived
    \/ InsertSettled

SpecOcr == InitOcr /\ [][NextOcr]_vars

\* The capture flow of App.jsx and part_000 on a host with no camera or one
\* camera: the camera machine with every capture followed through the
\* pipeline.
CaptureHostCatalogs == { c \in HostCatalogs : Len(c) <= 1 }

InitCapture == InitWith(CaptureHostCatalogs)

FetchSettled == \E outcome \in {"ok", "notok", "threw"} : fetchSettled(outcome)

\* loadOpenCV settles, one way or the other.
LoadOpenCVEnded == loadOpenCVResolved \/ scriptFailed

\* A step of processWithOpenCV once the library is there.
EnhanceStep ==
    \/ imread
    \/ stages
    \/ enhPc = "staged" /\ ResizeAndDraw
    \/ cleanup

NextCapture ==
    \/ initProbeResolved
    \/ initProbeRejected
    \/ ListCameras
    \/ StartCameraResolved
    \/ StartCameraRejected
    \/ captureClick
    \/ loadOpenCVResolved
    \/ scriptFailed
    \/ EnhanceStep
    \/ fetchIssued
    \/ enhanceThrew
    \/ FetchSettled

\* Every await of the flow is resumed once its promise has settled, and the
\* fetch settles.
SpecCapture ==
    /\ InitCapture
    /\ [][NextCapture]_vars
    /\ WF_vars(LoadOpenCVEnded)
    /\ WF_vars(EnhanceStep)
    /\ WF_vars(fetchIssued)
    /\ WF_vars(enhanceThrew)
    /\ WF_vars(FetchSettled)

\* part_000 with its Upload button next to the capture/resume button, each
\* run taken as a whole.
InitUpload ==
    /\ variant = "P000"
    /\ hostCatalog \in CaptureHostCatalogs
    /\ Mounted

ImgOnload == tally.picked > 0 /\ \E f \in ImageFrames : imgOnload(f)

RunSettled == \E outcome \in {"ok", "notok", "threw"} : runSettled(outcome)

NextUpload ==
    \/ initProbeResolved
    \/ initProbeRejected
    \/ ListCameras
    \/ StartCameraResolved
    \/ StartCameraRejected
    \/ captureClick
    \/ handleImageUpload
    \/ ImgOnload
    \/ imgOnerror
    \/ RunSettled

SpecUpload == InitUpload /\ [][NextUpload]_vars

\* The variants with a way back after a failure: the capture/resume button
\* of App.jsx and part_000, the Retry button of part_001.
RetryVariants == Variants \cup {"P001"}

InitRetry ==
    /\ variant \in RetryVariants
    /\ hostCatalog \in IF variant \in Variants THEN HostCatalogs ELSE FlipHostCatalogs
    /\ Mounted

\* The user at the capture/resume button: pressing it once startup is over
\* and the starts issued before have settled.
RetryButton ==
    /\ variant \in Variants
    /\ initPc \in {"done", "failed"}
    /\ pending = <<>>
    /\ handleCaptureClick

\* The capture machine of App.jsx and part_000: startup, acquisitions that
\* the host grants or refuses (but for the one a resume asked for, which it
\* grants), captures that settle one way or the other.
RetryStartCameraResolved == variant \in Variants /\ StartCameraResolved

RetryStartCameraRejected ==
    variant \in Variants /\ lastOp.op # "resume" /\ StartCameraRejected

RetryCaptureSettled == variant \in Variants /\ CaptureSettled

\* part_001: an acquisition is granted or refused, but for the one Retry
\* asked for, which is granted.
RetryFlipStartRejected == lastOp.op # "retry" /\ FlipStartRejected

\* Failures and the way back: startup and acquisitions may fail, captures
\* may fail, the user goes on pressing the button that is offered.
NextRetry ==
    \/ variant \in Variants /\ initProbeResolved
    \/ variant \in Variants /\ initProbeRejected
    \/ variant \in Variants /\ ListCameras
    \/ RetryStartCameraResolved
    \/ RetryStartCameraRejected
    \/ RetryCaptureSettled
    \/ RetryButton
    \/ flipProbeResolved
    \/ flipProbeRejected
    \/ enumerateAndChooseDevices
    \/ handleStartCamera
    \/ retry
    \/ FlipStartResolved
    \/ RetryFlipStartRejected

\* The user presses the button offered and the promises of getUserMedia and
\* of the capture are settled: their continuations run.
SpecRetry ==
    /\ InitRetry
    /\ [][NextRetry]_vars
    /\ WF_vars(RetryButton)
    /\ WF_vars(RetryCaptureSettled)
    /\ WF_vars(RetryStartCameraResolved)
    /\ WF_vars(retry)
    /\ WF_vars(FlipStartResolved)

----------------------------------------------------------------------------
(* Properties *)

Ids(cams) == { cams[i].deviceId : i \in 1..Len(cams) }

Devices(cams) == { cams[i] : i \in 1..Len(cams) }

\* The rear heuristic as the specification words it: on the lower-cased label.
LowerIsBackZero(c) ==
    includes(toLowerCase(c.label), StrBack) /\ includes(toLowerCase(c.label), StrZero)

\* C1: in every reachable state at most one acquired stream has a live
\* track: no two ActiveStreams coexist.
C1_AtMostOneLiveStream == Cardinality(LiveStreams(streams)) <= 1

C3_SupersededStreamStopped ==
    pending = <<>> => \A i \in 1..Len(streams) : streams[i].superseded => ~streams[i].live

\* C4: a step that issues an acquisition leaves no stream that was shown in
\* the viewport with a live track: the stop comes before the acquisition.
C4_StopBeforeAcquire ==
    [][Len(pending') = Len(pending) + 1 =>
        \A i \in 1..Len(streams') : streams'[i].installed => ~streams'[i].live]_vars

\* C5: after a failed acquisition the failure was reported, the stream the
\* start replaced has its track released and the viewport no longer refers
\* to it.
C5_FailedStartLeavesNoStoppedStream ==
    lastOp.op = "startFailed" =>
        /\ lastAlert = "Camera access failed"
        /\ lastOp.prev # 0 => (~streams[lastOp.prev].live /\ srcObject # lastOp.prev)

\* C6: stop is idempotent: it raises nothing, a second stop changes nothing
\* the first left, and with no stream held stop changes nothing at all.
C6_StopIdempotent ==
    LET once == stopCurrentStream(streams, srcObject)
        twice == stopCurrentStream(once.streams, once.srcObject)
    IN /\ ~once.threw
       /\ ~twice.threw
       /\ twice = once
       /\ HeldStream = 0 => (once.streams = streams /\ once.srcObject = srcObject)

\* C6 witness: a stop has just released a live stream, and the manager is in
\* the state one stop leaves.
C6_Witness ==
    /\ lastOp.op = "handleCameraChange"
    /\ lastOp.prev # 0
    /\ streams[lastOp.prev].installed
    /\ ~streams[lastOp.prev].live
    /\ stopCurrentStream(streams, srcObject).streams = streams

\* C7: after every successful start the recorded current device id is the
\* device of the stream acquired.
C7_RecordedIdIsActualId ==
    lastOp.op = "startOK" => selectedCameraId = streams[Len(streams)].dev

\* C8: for a non-empty catalog selectDefault answers a device of the catalog
\* (and that device's id is the one recorded).
C8_DefaultIsMember ==
    (initPc = "done" /\ Len(cameras) > 0) =>
        /\ findMainBackCamera(cameras) \in Devices(cameras)
        /\ selectedCameraId = findMainBackCamera(cameras).deviceId

\* C8 witness: a catalog of several devices was enumerated and the default
\* chosen is not the first one.
C8_Witness ==
    /\ initPc = "done"
    /\ Len(cameras) >= 2
    /\ selectedCameraId = 2
    /\ findMainBackCamera(cameras) = cameras[2]

\* C9: when some lower-cased label contains both "back" and "0", the
\* default is the first such device.
C9_BackZeroPreferred ==
    (initPc = "done" /\ \E i \in 1..Len(cameras) : LowerIsBackZero(cameras[i])) =>
        findMainBackCamera(cameras) = cameras[find([i \in 1..Len(cameras) |-> LowerIsBackZero(cameras[i])])]

\* C10: for an empty catalog selectDefault answers null, and the startup
\* selection records no device and issues no start.
C10_EmptyCatalogSelectsNothing ==
    (initPc = "done" /\ Len(cameras) = 0) =>
        /\ findMainBackCamera(cameras) = NoDevice
        /\ selectedCameraId = 0
        /\ pending = <<>>
        /\ streams = <<>>

\* C10 witness: enumeration answered an empty catalog and startup finished.
C10_Witness ==
    /\ lastOp.op = "listCameras"
    /\ initPc = "done"
    /\ hostCatalog = <<>>
    /\ cameras = <<>>

\* The id of the camera chosen by default at startup: selectedCameraId in the
\* capture machine, currentDeviceId in the flip variants.
DefaultDeviceId == IF variant \in Variants THEN selectedCameraId ELSE currentDeviceId

\* C11: once startup has chosen from a non-empty catalog none of whose labels
\* matches the rear heuristic, the default is the catalog's first device.
C11_FirstDeviceWhenNoRearLabel ==
    (initPc = "done" /\ cameras # <<>> /\ \A i \in 1..Len(cameras) : ~IsRear(cameras[i])) =>
        DefaultDeviceId = cameras[1].deviceId

\* C12: two flips in a row, each start completing, made from the back device
\* as the current device, end on the device they set out from.
C12_FlipRoundTrip == trip.n = 4 => currentDeviceId = trip.origin

\* No label of the catalog resolves a counterpart: none matches the front
\* words and none the rear words.
NoLabelResolves(cams) == \A i \in 1..Len(cams) : ~IsRear(cams[i]) /\ ~IsFront(cams[i])

\* The id of the device that follows id in catalog order, the first after the last.
NextInCatalog(cams, id) ==
    LET i == CHOOSE j \in 1..Len(cams) : cams[j].deviceId = id
    IN cams[(i % Len(cams)) + 1].deviceId

\* C13 as stated: a flip of part_001 in a catalog where no label resolves a
\* counterpart targets the device after the current one in catalog order,
\* wrapping from the last to the first.
C13_FlipCyclesCatalog ==
    (/\ variant = "P001"
     /\ lastOp.op = "flipCamera"
     /\ NoLabelResolves(cameras)
     /\ lastOp.dev \in Ids(cameras)) =>
        lastOp.req = NextInCatalog(cameras, lastOp.dev)

\* C13 amended: such a flip toggles between the two ends of the catalog:
\* from the last of several devices it targets the first, from any other
\* device it targets the last.
C13_FlipTogglesFirstLast ==
    (/\ variant = "P001"
     /\ lastOp.op = "flipCamera"
     /\ NoLabelResolves(cameras)
     /\ lastOp.dev \in Ids(cameras)) =>
        lastOp.req = IF Len(cameras) > 1 /\ lastOp.dev = cameras[Len(cameras)].deviceId
                     THEN cameras[1].deviceId
                     ELSE cameras[Len(cameras)].deviceId

\* C13 witness: in a label-less catalog of three devices a flip made on the
\* first device targets the third, not the second.
C13_Witness ==
    /\ variant = "P001"
    /\ lastOp.op = "flipCamera"
    /\ Len(cameras) = 3
    /\ NoLabelResolves(cameras)
    /\ lastOp.dev = 1
    /\ lastOp.req = 3
    /\ pending # <<>>
    /\ pending[Len(pending)].dev = 3

\* C14: the capture/resume command is one command with two meanings. In LIVE
\* it captures and enters FROZEN without issuing a start or touching any
\* stream; in FROZEN it resumes into LIVE, issuing one start and capturing no
\* frame (no preview is set, no OCR request begins).
C14_CaptureResumeByState ==
    [][/\ lastOp'.op = "captureImage" =>
            /\ ~previewImage /\ previewImage'
            /\ pending' = pending
            /\ streams' = streams
       /\ lastOp'.op = "resume" =>
            /\ previewImage /\ ~previewImage'
            /\ Len(pending') = Len(pending) + 1
            /\ Len(streams') = Len(streams)
            /\ ~loading']_vars

\* C14 witness: a frame was captured, its request settled, and the same
\* command has just resumed the live view.
C14_Witness ==
    /\ lastOp.op = "resume"
    /\ ~previewImage
    /\ ~loading
    /\ pending # <<>>

\* C15: right after every capture (LIVE -> FROZEN) result and raw are clear.
C15_CaptureClearsResult ==
    lastOp.op = "captureImage" => (result = "null" /\ raw = "")

\* C16: right after a resume, result and raw are clear, the machine is in
\* LIVE and the newest start issued asks for the selected device.
C16_ResumeClearsAndRestarts ==
    lastOp.op = "resume" =>
        /\ result = "null"
        /\ raw = ""
        /\ ~previewImage
        /\ pending # <<>>
        /\ pending[Len(pending)].dev = selectedCameraId
        /\ lastOp.req = selectedCameraId

\* C16 witness: a resume of a session that had selected a device.
C16_Witness ==
    /\ lastOp.op = "resume"
    /\ selectedCameraId # 0
    /\ pending # <<>>
    /\ pending[Len(pending)].dev = selectedCameraId
    /\ result = "null"

\* C17: right after a device-changed command, result and raw are clear, the
\* new id is the recorded selection, the newest start issued asks for the
\* new id, and the machine is in LIVE.
C17_DeviceChangedRestarts ==
    lastOp.op = "handleCameraChange" =>
        /\ result = "null"
        /\ raw = ""
        /\ selectedCameraId = lastOp.req
        /\ pending # <<>>
        /\ pending[Len(pending)].dev = lastOp.req
        /\ ~previewImage

\* C17 witness: the device was changed while a stream was shown, and the
\* start for the new device is in flight.
C17_Witness ==
    /\ lastOp.op = "handleCameraChange"
    /\ lastOp.prev # 0
    /\ selectedCameraId = lastOp.req
    /\ pending[Len(pending)].dev = selectedCameraId
    /\ streams[lastOp.prev].dev # selectedCameraId

\* The viewport shows a live stream of the default device and no preview
\* hides it: the machine is in LIVE on the camera selectDefault chose.
LiveOnDefault ==
    /\ ~previewImage
    /\ srcObject # 0
    /\ streams[srcObject].live
    /\ streams[srcObject].dev = findMainBackCamera(hostCatalog).deviceId
    /\ selectedCameraId = findMainBackCamera(hostCatalog).deviceId

\* C18: startup with a granted probe, a non-empty catalog and fulfilled
\* acquisitions leads, with no user command, to LIVE with a live stream of
\* the device selectDefault chose.
C18_StartupReachesLive == (hostCatalog # <<>>) ~> LiveOnDefault

\* C18 witness: startup has just put the stream of a default device that is
\* not the first of the catalog into the viewport.
C18_Witness ==
    /\ lastOp.op = "startOK"
    /\ initPc = "done"
    /\ Len(streams) = 1
    /\ LiveOnDefault
    /\ selectedCameraId = 2

\* C19: a rejected permission probe raises nothing further: the capture
\* machine alerts and exposes an empty catalog with nothing selected or
\* started, part_002 gives up with an empty catalog, and part_001 goes on to
\* enumerate and exposes the host's devices label-less, choosing among them;
\* findMainBackCamera too answers for label-less catalogs.
C19_DeniedPermissionTolerated ==
    /\ lastOp.op = "initProbeRejected" =>
        /\ initPc = "failed"
        /\ lastAlert = "Camera permission failed"
        /\ cameras = <<>>
        /\ selectedCameraId = 0
        /\ pending = <<>>
    /\ lastOp.op = "flipProbeRejected" =>
        /\ initPc = IF variant = "P001" THEN "enumerate" ELSE "failed"
        /\ cameras = <<>>
        /\ tempStream = "none"
    /\ (variant = "P001" /\ initPc = "done" /\ tempStream = "none") =>
        /\ cameras = Unlabelled(hostCatalog)
        /\ backDeviceId \in Ids(cameras) \cup {0}
        /\ frontDeviceId \in Ids(cameras) \cup {0}
        /\ currentDeviceId \in (IF cameras = <<>> THEN {0} ELSE Ids(cameras))
    /\ findMainBackCamera(Unlabelled(hostCatalog)) =
           IF hostCatalog = <<>> THEN NoDevice ELSE Unlabelled(hostCatalog)[1]

\* C19 witness: part_001 was denied the probe, enumerated several label-less
\* devices and chose one of them.
C19_Witness ==
    /\ variant = "P001"
    /\ initPc = "done"
    /\ tempStream = "none"
    /\ Len(cameras) >= 2
    /\ \A i \in 1..Len(cameras) : cameras[i].label = LabelEmpty
    /\ \E i \in 1..Len(hostCatalog) : hostCatalog[i].label # LabelEmpty
    /\ currentDeviceId \in Ids(cameras)

\* C20: once enumeration has finished, the permission-probe stream is not live.
C20_ProbeStoppedAfterEnumeration == initPc = "done" => tempStream # "live"

\* A processWithOpenCV call has ended, by a return or by a throw.
EnhanceEnded == enhPc \in {"returned", "threw"}

\* |height - rows * target / cols| <= 1, in integers.
WithinOnePixel(height, rows, target, cols) ==
    /\ height * cols - rows * target <= cols
    /\ rows * target - height * cols <= cols

\* C21: for every frame of positive width and height, the pipeline of
\* App.jsx and of part_000 returns an image whose width is the target width
\* and whose height is within one pixel of height * target / width.
C21_OutputDimensions ==
    (variant \in {"App", "P000"} /\ frame.width > 0 /\ frame.height > 0 /\ EnhanceEnded)
        => /\ enhPc = "returned"
           /\ enhOut = "base64"
           /\ canvas.width = TARGET_WIDTH
           /\ WithinOnePixel(canvas.height, frame.height, TARGET_WIDTH, frame.width)

\* The errors a frame without pixels is reported with.
InvalidFrameErrors == {"IndexSizeError", "Empty canvas image."}

C23_AllReleasedOnExit == EnhanceEnded => mats = {}

Normalized == parsed.kind # "none"

\* The raw text, fences stripped, is no JSON.
ParseFails == JSONparse(Stripped(rawText)).kind = "SyntaxError"

\* The safe default but for its notes.
SafeDefault(record) ==
    /\ record.kind = "object"
    /\ record.fields["meter_reading"] = Null
    /\ record.fields["register_type"] = Null
    /\ record.fields["serial_number"] = Null
    /\ record.fields["confidence"] = <<"low">>

\* The notes hold text after their first token.
NotesHold(record, text) == Tail(record.fields["notes"]) = text

\* The copy of the raw text that is cut to MaxNotes tokens.
Truncated(text) == SubSeq(text, 1, IF Len(text) < MaxNotes THEN Len(text) ELSE MaxNotes)

\* C25: for every raw text that fails to parse, ocr.js and part_006
\* propagate no exception (the response is the 200 one) and produce the
\* safe default record, whose notes are not empty and hold a truncated copy
\* of the raw text.
C25_DefaultWithTruncatedNotes ==
    (variant \in {"ocr", "P006"} /\ Normalized /\ ParseFails)
        => /\ SafeDefault(parsed)
           /\ parsed.fields["notes"] # <<>>
           /\ NotesHold(parsed, Truncated(rawText))
           /\ ocrPc = "done" => response.status = 200 /\ response.result = parsed

\* C25, as the code has it: the notes are the words "Could not parse
\* response: " followed by the whole raw text, however long.
C25_DefaultWithWholeText ==
    (variant \in {"ocr", "P006"} /\ Normalized /\ ParseFails)
        => /\ SafeDefault(parsed)
           /\ Head(parsed.fields["notes"]) = NotesPrefix
           /\ NotesHold(parsed, rawText)
           /\ ocrPc = "done" => response.status = 200 /\ response.result = parsed

C25_Witness ==
    /\ variant = "ocr"
    /\ ocrPc = "done"
    /\ Len(rawText) > MaxNotes
    /\ \E i \in 1..Len(rawText) : rawText[i] = "prose"
    /\ ParseFails
    /\ response.status = 200
    /\ response.result.fields["notes"] = <<NotesPrefix>> \o rawText

\* C26: for every raw text that parses, ocr.js and part_006 produce a
\* record with every key present.
C26_FullyPopulated ==
    (variant \in {"ocr", "P006"} /\ Normalized /\ ~ParseFails)
        => /\ parsed.kind = "object"
           /\ \A k \in Keys : parsed.fields[k] # Undefined

\* C27: for every bare text that is a JSON record, the text in a json
\* fence or in a plain fence normalizes to the record the bare text
\* normalizes to.
C27_FenceAccepted ==
    \A wrapping \in {"json fence", "fence"}, bare \in BareTexts :
        (Normalized /\ rawText = Wrap(wrapping, bare) /\ JSONparse(bare).kind = "object")
            => parsed = normalize(bare)

\* C28: every response of api/ocr.js carries ok: true with result and raw
\* on success, false with error on every failure.
C28_OkOnEveryResponse ==
    (variant = "ocr" /\ ocrPc = "done")
        => /\ "ok" \in response.keys
           /\ IF response.status = 200
              THEN response.ok /\ {"result", "raw"} \subseteq response.keys
              ELSE ~response.ok /\ "error" \in response.keys

\* C29: a failing insert changes nothing of the capture flow. When the
\* insert of ocr.js fails the response is still the 200 one with ok, the
\* parsed record and the raw text; when the insert of captureImage fails
\* loading was cleared before and stays so, the result and the raw text
\* shown stay, and no request goes out again; and no insert follows a
\* failed one.
C29_InsertFailureHarmless ==
    [][/\ (ocrPc = "inserting" /\ response'.db_status = "DB insert failed")
            => /\ response'.status = 200
               /\ response'.ok
               /\ response'.result = parsed
               /\ response'.raw = rawText
               /\ ocrPc' = "done"
       /\ lastOp'.op = "insertFailed"
            => /\ ~loading /\ ~loading'
               /\ result = "record" /\ result' = "record"
               /\ raw = "text" /\ raw' = "text"
               /\ previewImage' = previewImage
               /\ UNCHANGED ocrVars
       /\ lastOp.op = "insertFailed" => lastOp'.op \notin {"insertFailed", "insertSaved"}
       /\ response.db_status = "DB insert failed" => (response' = response /\ ocrPc' = "done")
      ]_vars

C29_Witness ==
    /\ lastOp.op = "insertFailed"
    /\ response.db_status = "DB insert failed"
    /\ response.ok
    /\ result = "record"
    /\ ~loading

\* C30: a capture fires only while the video plays a live stream, so the
\* pipeline never gets a canvas without pixels.
C30_CaptureOnlyOnLiveStream ==
    [][(~previewImage /\ previewImage')
           => (srcObject # 0 /\ streams[srcObject].live)]_vars

\* C33: the stream that was live before a capture has its track stopped
\* before the resume asks for a new one: at a resume no stream is live
\* once its stop has run.
C33_ResumeStopsOldStream ==
    [][(previewImage /\ ~previewImage' /\ lastOp'.op = "resume")
           => LiveStreams(streams') = {}]_vars

\* C34: every stream an acquisition returned is one the video element
\* was given to or has its track stopped: none is live without having been
\* installed.
C34_NoStreamLeftLive ==
    \A i \in 1..Len(streams) : streams[i].live => streams[i].installed

\* C36: with no preview shown the result is null and raw is empty.
C36_NoResultOverLiveView == ~previewImage => (result = "null" /\ raw = "")

\* C37: once no start is pending, the stream the video plays is one of the
\* selected camera.
C37_SelectedIsActive ==
    (pending = <<>> /\ HeldStream # 0 /\ selectedCameraId # 0)
        => streams[HeldStream].dev = selectedCameraId

\* C40: for every frame of positive width and height the height computed
\* for the resize is at least 1.
C40_ResizeHeightPositive ==
    (variant \in {"App", "P000"} /\ enhPc = "staged")
        => \A newHeight \in RoundScaled(canvas.height, TARGET_WIDTH, canvas.width) :
               newHeight >= 1

\* A start failed, or a capture ended in an error, in the step just taken.
JustFailed ==
    \/ lastOp.op \in {"startFailed", "startThrew", "initProbeRejected"}
    \/ lastOp.op = "captureSettled" /\ result = "error"

\* The host has a camera to grant and the model has room for one more
\* acquisition.
CanGrant == hostCatalog # <<>> /\ Len(streams) + Len(pending) < MaxStreams

\* LIVE with an active stream.
LiveWithStream == ~previewImage /\ srcObject # 0 /\ streams[srcObject].live

C38_OneRecordPerCapture ==
    (variant = "ocr" /\ request.from = "app" /\ lastOp.op \in {"insertSaved", "insertFailed"})
        => records = 1

\* C39: every capture gets to clear loading, whether the library loads or
\* fails to load and however the enhancement and the request end.
C39_LoadingCleared == loading ~> ~loading

\* C32: a capture command makes one frame and hands it to processWithOpenCV
\* once; the request to /api/ocr is sent only once processWithOpenCV has
\* returned, with the image it returned, at most once per capture; when
\* processWithOpenCV throws no request is sent and the error is shown.
C32_OneFrameOnePass ==
    /\ [](/\ tally.runs = tally.captures
          /\ tally.requests <= tally.runs
          /\ enhPc \in {"loading", "hung", "start", "read", "staged", "drawn", "threw"}
                 => request = NoRequest)
    /\ [][/\ tally'.captures # tally.captures
               => /\ tally'.captures = tally.captures + 1
                  /\ tally'.runs = tally.runs + 1
                  /\ frame' = canvas'
                  /\ enhPc' = "loading"
          /\ tally'.requests # tally.requests
               => /\ tally'.requests = tally.requests + 1
                  /\ enhPc = "returned"
                  /\ enhOut = "base64"
                  /\ request'.imageBase64
                  /\ canvas.pixels = "enhanced"
          /\ (enhPc = "threw" /\ loading /\ ~loading')
               => /\ result' = "error"
                  /\ request' = NoRequest
                  /\ tally'.requests = tally.requests
         ]_vars

C32_Witness ==
    /\ tally.captures = 2
    /\ tally.requests = 1
    /\ enhPc = "threw"
    /\ result = "error"
    /\ ~loading

\* C35: at most one run of the enhancement and extraction is under way at
\* any time: no capture or upload starts a run on the canvas while another
\* run is still working on it.
C35_OneRunInFlight == tally.runs - tally.settled <= 1

====
